---- MODULE Spec2Model ----
(***************************************************************************)
(* Tournament tracker: the two application roots of the repository (the    *)
(* custom-id root, handle* handlers, and the uuid root), their state       *)
(* store, the score entry, the round progression and the player registry.  *)
(*                                                                         *)
(* Ratings are kept in thousandths of a rating point (1500 is 1500000).    *)
(* Asynchronous handlers are split at their awaits: the part before the    *)
(* await is one action, the continuation after the external service        *)
(* answered is another; the closure a continuation runs in is the          *)
(* snapshot of the state taken when the handler was invoked.               *)
(***************************************************************************)
EXTENDS Integers, Sequences, FiniteSets, TLC

VARIABLES
  root,               \* "custom" (handle* root) or "uuid": which App is running
  apiKey,             \* whether process.env.API_KEY is set
  isGeneratingFixture, \* function: category -> loading flag
  fixtureAlert,       \* what the last fixture generation alerted, "" if nothing
  players,            \* TournamentState.players: sequence of Player records
  matches,            \* TournamentState.matches: sequence of Match records
  currentRound,       \* TournamentState.currentRound
  tournamentSettings, \* << >> for null, <<settings>> otherwise
  roundSummaries,     \* function: round number -> summary text
  generatedFixtures,  \* function: key -> sequence of fixture rows
  publishedFixtures,  \* function: key -> sequence of fixture rows
  isLoadingSummary,   \* TournamentState.isLoadingSummary
  isBulkUploadingPlayers, \* TournamentState.isBulkUploadingPlayers
  currentId,          \* the id generator's counter (generateUniqueId / uuidv4)
  activeFixtureCategories, \* TournamentState.activeFixtureCategories
  calls,              \* round completions awaiting the summary service
  fixtureCalls,       \* fixture generations awaiting the external generator
  warnings            \* processingErrors of the last bulk upload

vars == <<root, apiKey, isGeneratingFixture, fixtureAlert, players, matches, currentRound, tournamentSettings,
          roundSummaries, generatedFixtures, publishedFixtures,
          isLoadingSummary, isBulkUploadingPlayers, currentId,
          activeFixtureCategories, calls, fixtureCalls, warnings>>

----------------------------------------------------------------------------
(* Bounds of the model *)

MaxPlayers == 4       \* players registered in a tournament run
MaxScore == 1         \* largest score typed into a score box
MaxCalls == 2         \* round completions in flight at the same time
MaxRound == 3         \* rounds a run is followed through
MaxImportRows == 2    \* rows of a fixture added to a tournament run
MaxRegistry == 3      \* players in the registry runs
MaxFileRows == 2      \* data rows of an uploaded roster file
MaxFixtureCalls == 1  \* fixture generations in flight at the same time
MaxIds == 4           \* ids handed out in the registry runs
MaxEntrantId == 4     \* ids handed out to players in the runs with a reset

(* Program constants *)

NULL == -1                \* null / undefined
NaN == -2                 \* what parseInt returns for a text without digits
DefaultRating == 1500000  \* rating: 1500
K == 32                   \* K-factor

EmptyMap == [x \in {} |-> x]

Roster == <<"A", "B", "C", "D", "E", "F">>
DEFAULT_PLAYER_CATEGORY == "30+"
SummaryTexts == {"summary", "Failed to generate round summary."}

----------------------------------------------------------------------------
(* Sequence helpers: Array.prototype.filter / map / some / find *)

Range(s) == {s[i] : i \in 1..Len(s)}

Shuffles(s) ==
  {[i \in 1..Len(s) |-> s[f[i]]] : f \in Permutations(1..Len(s))}

PlayerIds(ps) == {ps[i].id : i \in 1..Len(ps)}

HasPlayer(ps, id) == \E i \in 1..Len(ps) : ps[i].id = id

FindPlayer(ps, id) == ps[CHOOSE i \in 1..Len(ps) : ps[i].id = id]

RoundMatches(ms, r) == SelectSeq(ms, LAMBDA m : m.round = r)

----------------------------------------------------------------------------
(* Rating updater *)

\* 1000 / (1 + 10^(-d/400)) for d = 0, 16, 32, ... 400 rating points: the
\* expected score, in thousandths, of the player who is d points ahead.
ExpectedTable ==
  <<500, 523, 546, 569, 591, 613, 635, 656, 676, 696, 715, 734, 751,
    768, 784, 799, 814, 827, 840, 852, 863, 874, 884, 893, 901, 909>>

Abs(x) == IF x < 0 THEN -x ELSE x

Min(a, b) == IF a < b THEN a ELSE b

\* Ea = 1 / (1 + 10^((Rb - Ra) / 400)), in thousandths
Expected(ra, rb) ==
  LET ahead == ExpectedTable[Min(Abs(ra - rb) \div 16000, 25) + 1]
  IN  IF ra >= rb THEN ahead ELSE 1000 - ahead

\* actual score in thousandths: 1 / 0.5 / 0
Actual(outcome) ==
  IF outcome = "win" THEN 1000 ELSE IF outcome = "loss" THEN 0 ELSE 500

calculateEloRating(playerRating, opponentRating, outcome) ==
  playerRating + K * (Actual(outcome) - Expected(playerRating, opponentRating))

----------------------------------------------------------------------------
(* Records *)

NewPlayer(id, name, mobileNumber, rating, category) ==
  [id |-> id, name |-> name, mobileNumber |-> mobileNumber, rating |-> rating,
   wins |-> 0, losses |-> 0, draws |-> 0, category |-> category]

NewMatch(id, p1, p2, round, category, group) ==
  [id |-> id, player1Id |-> p1, player2Id |-> p2, score1 |-> NULL,
   score2 |-> NULL, winnerId |-> NULL, round |-> round, isComplete |-> FALSE,
   category |-> category, group |-> group]

\* players.map(p => p.id === id ? { ...p, [field]: p[field] + 1 } : p); also
\* the in-place p[field]++ on the object found by id
Bump(ps, id, field) ==
  [i \in 1..Len(ps) |->
     IF ps[i].id = id THEN [ps[i] EXCEPT ![field] = @ + 1] ELSE ps[i]]

\* p[field]-- on the object found by id
Drop(ps, id, field) ==
  [i \in 1..Len(ps) |->
     IF ps[i].id = id THEN [ps[i] EXCEPT ![field] = @ - 1] ELSE ps[i]]

\* p.rating = r on the object found by id
SetRating(ps, id, r) ==
  [i \in 1..Len(ps) |->
     IF ps[i].id = id THEN [ps[i] EXCEPT !.rating = r] ELSE ps[i]]

RatingOf(ps, id) == FindPlayer(ps, id).rating

----------------------------------------------------------------------------
(* Score entry *)

\* score1 > score2 ? player1Id : score2 > score1 ? player2Id : null
DecideWinner(m, score1, score2) ==
  IF score1 > score2 THEN m.player1Id
  ELSE IF score2 > score1 THEN m.player2Id
  ELSE NULL

\* a score entry that takes a score of 0 for a score that is not set
ScoredMatchTruthy(m, score1, score2) ==
  [m EXCEPT !.score1 = score1, !.score2 = score2,
            !.winnerId = DecideWinner(m, score1, score2),
            !.isComplete = (score1 > 0 /\ score2 > 0)]

\* const newMatch = { ...match, score1, score2, winnerId, isComplete }
ScoredMatch(m, score1, score2) ==
  [m EXCEPT !.score1 = score1, !.score2 = score2,
            !.winnerId = DecideWinner(m, score1, score2),
            !.isComplete = (score1 # NULL /\ score2 # NULL)]

ScoreMatches(ms, matchId, score1, score2) ==
  [i \in 1..Len(ms) |->
     IF ms[i].id = matchId THEN ScoredMatch(ms[i], score1, score2) ELSE ms[i]]

\* a count that credits the winner and leaves the loser's counters alone
CountResultWinnerOnly(ps, p1, p2, winnerId) ==
  IF winnerId = p1 THEN Bump(ps, p1, "wins")
  ELSE IF winnerId = p2 THEN Bump(ps, p2, "wins")
  ELSE Bump(Bump(ps, p1, "draws"), p2, "draws")

\* wins++ / losses++ / draws++ on the two player objects, in the code's order
CountResult(ps, p1, p2, winnerId) ==
  IF winnerId = p1 THEN Bump(Bump(ps, p1, "wins"), p2, "losses")
  ELSE IF winnerId = p2 THEN Bump(Bump(ps, p2, "wins"), p1, "losses")
  ELSE Bump(Bump(ps, p1, "draws"), p2, "draws")

\* the revert of an old result: wins-- / losses-- / draws--
UncountResult(ps, p1, p2, oldWinnerId) ==
  IF oldWinnerId = p1 THEN Drop(Drop(ps, p1, "wins"), p2, "losses")
  ELSE IF oldWinnerId = p2 THEN Drop(Drop(ps, p2, "wins"), p1, "losses")
  ELSE Drop(Drop(ps, p1, "draws"), p2, "draws")

\* S1 (side = 1) or S2 (side = 2) of the custom-id root, in thousandths
ActualOfSide(p1, p2, winnerId, side) ==
  IF winnerId = p1 THEN (IF side = 1 THEN 1000 ELSE 0)
  ELSE IF winnerId = p2 THEN (IF side = 1 THEN 0 ELSE 1000)
  ELSE 500

\* custom-id root, match just completed: counters, then the inline Elo update
\* (R1, R2 read first, player1.rating written, then player2.rating)
ApplyResult(ps, p1, p2, winnerId) ==
  LET counted == CountResult(ps, p1, p2, winnerId)
      R1 == RatingOf(counted, p1)
      R2 == RatingOf(counted, p2)
      E1 == Expected(R1, R2)
      E2 == Expected(R2, R1)
      S1 == ActualOfSide(p1, p2, winnerId, 1)
      S2 == ActualOfSide(p1, p2, winnerId, 2)
  IN  SetRating(SetRating(counted, p1, R1 + K * (S1 - E1)),
                p2, R2 + K * (S2 - E2))

\* custom-id root, winner changed after completion
CorrectResult(ps, p1, p2, oldWinnerId, winnerId) ==
  LET counted == CountResult(UncountResult(ps, p1, p2, oldWinnerId),
                             p1, p2, winnerId)
      R1 == RatingOf(counted, p1)
      R2 == RatingOf(counted, p2)
      E1 == Expected(R1, R2)
      E2 == Expected(R2, R1)
      new1 == RatingOf(counted, p1)
                - K * (ActualOfSide(p1, p2, oldWinnerId, 1) - E1)
                + K * (ActualOfSide(p1, p2, winnerId, 1) - E1)
      after1 == SetRating(counted, p1, new1)
      new2 == RatingOf(after1, p2)
                - K * (ActualOfSide(p1, p2, oldWinnerId, 2) - E2)
                + K * (ActualOfSide(p1, p2, winnerId, 2) - E2)
  IN  SetRating(after1, p2, new2)

\* custom-id root: the players after handleUpdateMatchScore on match m
ScorePlayers(ps, m, score1, score2) ==
  LET winnerId == DecideWinner(m, score1, score2)
      isComplete == score1 # NULL /\ score2 # NULL
      both == HasPlayer(ps, m.player1Id) /\ HasPlayer(ps, m.player2Id)
  IN  IF isComplete /\ ~m.isComplete
      THEN IF both THEN ApplyResult(ps, m.player1Id, m.player2Id, winnerId)
           ELSE ps
      ELSE IF isComplete /\ m.isComplete /\ m.winnerId # winnerId
      THEN IF both
           THEN CorrectResult(ps, m.player1Id, m.player2Id, m.winnerId, winnerId)
           ELSE ps
      ELSE ps

----------------------------------------------------------------------------
(* Round progression: pure parts *)

FormatOf(ts) == IF ts = << >> THEN "none" ELSE ts[1].matchFormat

Settings(format, selected) ==
  <<[matchFormat |-> format, selectedPlayerIds |-> selected,
     customFixtureUploaded |-> FALSE]>>

\* matches.filter(m => m.round === currentRound).every(m => m.isComplete)
IsRoundComplete(ms, r) ==
  \A i \in 1..Len(ms) : ms[i].round = r => ms[i].isComplete

\* Array.prototype.sort((a, b) => b.rating - a.rating): stable, descending
RECURSIVE SortByRatingDesc(_)
SortByRatingDesc(s) ==
  IF Len(s) <= 1 THEN s
  ELSE LET rest == SortByRatingDesc(Tail(s))
           x == Head(s)
           k == Cardinality({i \in 1..Len(rest) : rest[i].rating > x.rating})
       IN  SubSeq(rest, 1, k) \o <<x>> \o SubSeq(rest, k + 1, Len(rest))

\* the pairs (first, second) for which a match is pushed get consecutive ids
MatchesOfPairs(pairs, firstId, round) ==
  [k \in 1..Len(pairs) |->
     NewMatch(firstId + k, pairs[k][1], pairs[k][2], round, pairs[k][3], "")]

\* custom-id root, startKnockoutTournament: shuffled[i] vs shuffled[i + 1]
\* for i = 0, 2, 4, ...; the last of an odd number gets a bye
AdjacentPairs(shuffled, category) ==
  [k \in 1..(Len(shuffled) \div 2) |->
     <<shuffled[2 * k - 1].id, shuffled[2 * k].id, category>>]

\* uuid root: winners[i] vs winners[length - 1 - i] for i < floor(length / 2)
FirstLastPairs(ordered) ==
  SelectSeq(
    [k \in 1..(Len(ordered) \div 2) |->
       <<ordered[k].id, ordered[Len(ordered) + 1 - k].id, ordered[k].category>>],
    LAMBDA pr : pr[1] # pr[2])

\* custom-id root, generateKnockoutMatchesForRound: the winners of the previous
\* round looked up in the closure's players (NULL where the lookup fails)
WinnerLookups(previousRoundMatches, closurePlayers) ==
  LET won == SelectSeq(previousRoundMatches, LAMBDA m : m.winnerId # NULL)
  IN  [k \in 1..Len(won) |->
         IF HasPlayer(closurePlayers, won[k].winnerId)
         THEN won[k].winnerId ELSE NULL]

\* the pairs pushed for one shuffle of the winners: both sides must exist
WinnerPairs(shuffled, closurePlayers) ==
  SelectSeq(
    [k \in 1..((Len(shuffled) + 1) \div 2) |->
       IF 2 * k <= Len(shuffled) /\ shuffled[2 * k - 1] # NULL
          /\ shuffled[2 * k] # NULL
       THEN <<shuffled[2 * k - 1], shuffled[2 * k],
              FindPlayer(closurePlayers, shuffled[2 * k - 1]).category>>
       ELSE <<NULL, NULL, "">>],
    LAMBDA pr : pr[1] # NULL)

\* uuid root, completeRound step 1: counters and ratings of one match
RoundResult(ps, m) ==
  IF ~(HasPlayer(ps, m.player1Id) /\ HasPlayer(ps, m.player2Id)) THEN ps
  ELSE LET p1 == m.player1Id
           p2 == m.player2Id
           outcome1 == IF m.winnerId = p1 THEN "win"
                       ELSE IF m.winnerId = p2 THEN "loss" ELSE "draw"
           outcome2 == IF m.winnerId = p1 THEN "loss"
                       ELSE IF m.winnerId = p2 THEN "win" ELSE "draw"
           counted == IF m.winnerId = p1
                      THEN Bump(Bump(ps, p1, "wins"), p2, "losses")
                      ELSE IF m.winnerId = p2
                      THEN Bump(Bump(ps, p1, "losses"), p2, "wins")
                      ELSE Bump(Bump(ps, p1, "draws"), p2, "draws")
           after1 == SetRating(counted, p1,
                       calculateEloRating(RatingOf(counted, p1),
                                          RatingOf(counted, p2), outcome1))
       IN  SetRating(after1, p2,
                     calculateEloRating(RatingOf(after1, p2),
                                        RatingOf(after1, p1), outcome2))

RECURSIVE RoundResults(_, _)
RoundResults(ps, ms) ==
  IF ms = << >> THEN ps
  ELSE RoundResults(RoundResult(ps, Head(ms)), Tail(ms))

\* uuid root: the winners of the closure's round, in registry order, by rating
Winners(closurePlayers, currentRoundMatches) ==
  SortByRatingDesc(
    SelectSeq(closurePlayers,
              LAMBDA p : \E i \in 1..Len(currentRoundMatches) :
                           currentRoundMatches[i].winnerId = p.id))


\* custom-id root, isTournamentCompleted (memo)
IsTournamentCompletedCustom(ms, r, ts) ==
  IF r = 0 THEN FALSE
  ELSE IF FormatOf(ts) = "knockout"
  THEN /\ IsRoundComplete(ms, r)
       /\ Len(SelectSeq(RoundMatches(ms, r), LAMBDA m : m.winnerId # NULL)) <= 1
  ELSE IF FormatOf(ts) \in {"round-robin", "hybrid"}
  THEN IsRoundComplete(ms, r) /\ RoundMatches(ms, r) # << >>
  ELSE FALSE

\* uuid root, isTournamentCompleted (memo)
IsTournamentCompletedUuid(ms, r, ts) ==
  IF ts = << >> \/ r = 0 THEN FALSE
  ELSE IF ~(\A i \in 1..Len(ms) : ms[i].round <= r => ms[i].isComplete)
  THEN FALSE
  ELSE IF FormatOf(ts) = "knockout"
  THEN Cardinality({m.winnerId : m \in {x \in Range(ms) :
                                          x.round = r /\ x.winnerId # NULL}}) <= 1
  ELSE IF FormatOf(ts) = "round-robin" THEN TRUE
  ELSE IF FormatOf(ts) = "hybrid" THEN r > 1
  ELSE FALSE

----------------------------------------------------------------------------
(* Fixtures *)

FixtureRow(player1, player2) ==
  [player1 |-> player1, player2 |-> player2, round |-> 1]

Names(ps) == [i \in 1..Len(ps) |-> ps[i].name]

\* players.find(p => p.name === name)?.id
IdByNameFirst(ps, name) ==
  IF \E i \in 1..Len(ps) : ps[i].name = name
  THEN ps[CHOOSE i \in 1..Len(ps) :
            ps[i].name = name /\ \A j \in 1..(i - 1) : ps[j].name # name].id
  ELSE NULL

\* new Map(players.map(p => [p.name, p.id])).get(name): the last entry of a
\* key is the one the Map keeps
IdByNameLast(ps, name) ==
  IF \E i \in 1..Len(ps) : ps[i].name = name
  THEN ps[CHOOSE i \in 1..Len(ps) :
            ps[i].name = name /\ \A j \in (i + 1)..Len(ps) : ps[j].name # name].id
  ELSE NULL

\* what the prompt asks the generator for: every player against every other
\* player exactly once
RECURSIVE RoundRobin(_)
RoundRobin(names) ==
  IF Len(names) < 2 THEN << >>
  ELSE [k \in 1..(Len(names) - 1) |-> FixtureRow(names[1], names[k + 1])]
       \o RoundRobin(Tail(names))

\* a name no registered player carries
Outsider == "Z"

\* What the external generator can answer for a list of at least two names:
\* the fixture asked for, the fixture with a pairing missing, a player paired
\* with themselves, a pairing with an unknown name, a pairing repeated, a
\* pairing placed in round 2, or a text that is no JSON array.
GeneratorResponses(names) ==
  {[ok |-> TRUE, rows |-> RoundRobin(names)],
   [ok |-> TRUE, rows |-> SubSeq(RoundRobin(names), 1, Len(RoundRobin(names)) - 1)],
   [ok |-> TRUE, rows |-> <<FixtureRow(names[1], names[1])>>],
   [ok |-> TRUE, rows |-> <<FixtureRow(names[1], Outsider)>>],
   [ok |-> TRUE, rows |-> RoundRobin(names) \o <<FixtureRow(names[2], names[1])>>],
   [ok |-> TRUE, rows |-> <<[FixtureRow(names[1], names[2]) EXCEPT !.round = 2]>>],
   [ok |-> FALSE, rows |-> << >>]}

\* fixture.map(row => match or null).filter(m => m !== null); the name is
\* looked up in a Map (the last player of a name) and the round is the row's
\* (fMatch.round || 1), or the name is looked up with find (the first player
\* of a name) and the round is 1
FixtureMatches(fixture, ps, category, firstId, keptEntry) ==
  LET IdByName(name) == IF keptEntry = "last" THEN IdByNameLast(ps, name)
                        ELSE IdByNameFirst(ps, name)
      found == SelectSeq(fixture,
                 LAMBDA f : IdByName(f.player1) # NULL
                            /\ IdByName(f.player2) # NULL)
  IN  [k \in 1..Len(found) |->
         NewMatch(firstId + k, IdByName(found[k].player1),
                  IdByName(found[k].player2),
                  IF keptEntry = "last" /\ found[k].round # 0
                  THEN found[k].round ELSE 1,
                  category, "")]

\* custom-id root, handleDeletePlayer: the rows kept of one cached fixture
KeptRowsCustom(fixture, ps, id) ==
  SelectSeq(fixture, LAMBDA row : IdByNameFirst(ps, row.player1) # id
                                  /\ IdByNameFirst(ps, row.player2) # id)

\* uuid root, deletePlayer: the rows kept of one generated fixture
KeptRowsUuid(fixture, ps, id) ==
  LET name == IF HasPlayer(ps, id) THEN FindPlayer(ps, id).name ELSE ""
  IN  SelectSeq(fixture, LAMBDA row : ~HasPlayer(ps, id)
                                      \/ (name # row.player1 /\ name # row.player2))

----------------------------------------------------------------------------
(* Roster files *)

PLAYER_CATEGORIES == <<"30+", "40+", "50+", "60+", "70+">>

\* parseInt(text, 10) on the texts that occur: leading digits, else NaN
Numerals ==
  [t \in {"1600", "40", "30+", "40+", "50+", "60+", "70+"} |->
     CASE t = "1600" -> 1600
       [] t \in {"40", "40+"} -> 40
       [] t = "30+" -> 30
       [] t = "50+" -> 50
       [] t = "60+" -> 60
       [] t = "70+" -> 70]

ParseInt(text) == IF text \in DOMAIN Numerals THEN Numerals[text] ELSE NaN

\* a parsed rating in the model's unit
RatingOfText(text) ==
  IF ParseInt(text) = NaN THEN NaN ELSE ParseInt(text) * 1000

CsvRow(name, mobilenumber, rating, category) ==
  [name |-> name, mobilenumber |-> mobilenumber, rating |-> rating,
   category |-> category]

\* the data rows a roster file is made of
CsvRows ==
  {CsvRow("A", "1", "", ""),
   CsvRow("B", "1", "1600", "40"),
   CsvRow("B", "", "", ""),
   CsvRow("", "2", "", ""),
   CsvRow("C", "2", "x", "")}

Files == UNION {[1..n -> CsvRows] : n \in 1..MaxFileRows}

IsValidRow(row) == row.name # "" /\ row.mobilenumber # ""

\* custom-id root: <<category, warned>>
CategoryCustom(category) ==
  IF category # "" /\ category \notin Range(PLAYER_CATEGORIES)
  THEN IF \E i \in 1..Len(PLAYER_CATEGORIES) :
            ParseInt(category) # NaN
            /\ ParseInt(PLAYER_CATEGORIES[i]) = ParseInt(category)
       THEN <<PLAYER_CATEGORIES[CHOOSE i \in 1..Len(PLAYER_CATEGORIES) :
                 ParseInt(PLAYER_CATEGORIES[i]) = ParseInt(category)], FALSE>>
       ELSE <<DEFAULT_PLAYER_CATEGORY, TRUE>>
  ELSE IF category = "" THEN <<DEFAULT_PLAYER_CATEGORY, FALSE>>
  ELSE <<category, FALSE>>

\* uuid root: <<category, warned>>
CategoryUuid(category) ==
  IF category \in Range(PLAYER_CATEGORIES) THEN <<category, FALSE>>
  ELSE IF category # "" /\ ParseInt(category) # NaN
          /\ \E i \in 1..Len(PLAYER_CATEGORIES) :
               ParseInt(PLAYER_CATEGORIES[i]) = ParseInt(category)
  THEN <<PLAYER_CATEGORIES[CHOOSE i \in 1..Len(PLAYER_CATEGORIES) :
            ParseInt(PLAYER_CATEGORIES[i]) = ParseInt(category)], FALSE>>
  ELSE <<DEFAULT_PLAYER_CATEGORY, TRUE>>

\* Map.prototype.set on a map kept as the sequence of its values: the keys
\* are the mobile numbers, a key keeps the position of its first insertion
MapSet(map, value) ==
  IF \E i \in 1..Len(map) : map[i].mobileNumber = value.mobileNumber
  THEN [i \in 1..Len(map) |->
          IF map[i].mobileNumber = value.mobileNumber THEN value ELSE map[i]]
  ELSE Append(map, value)

\* new Map(prev.players.map(p => [p.mobileNumber, p]))
RECURSIVE MapOfPlayers(_, _)
MapOfPlayers(map, ps) ==
  IF ps = << >> THEN map ELSE MapOfPlayers(MapSet(map, Head(ps)), Tail(ps))

Warning(index, kind) == [row |-> index + 2, kind |-> kind]

\* custom-id root: results.data.forEach over the rows from position index on
RECURSIVE BulkRowsCustom(_, _, _, _, _)
BulkRowsCustom(rows, index, map, errors, nextId) ==
  IF rows = << >> THEN [players |-> map, errors |-> errors, nextId |-> nextId]
  ELSE
    LET row == Head(rows)
        rating == IF row.rating # "" THEN RatingOfText(row.rating) ELSE NULL
        cat == CategoryCustom(row.category)
        catErrors == IF cat[2] THEN Append(errors, Warning(index, "category"))
                     ELSE errors
        known == \E i \in 1..Len(map) : map[i].mobileNumber = row.mobilenumber
        existingPlayer ==
          map[CHOOSE i \in 1..Len(map) : map[i].mobileNumber = row.mobilenumber]
    IN  IF ~IsValidRow(row)
        THEN BulkRowsCustom(Tail(rows), index + 1, map,
                            Append(errors, Warning(index, "missing")), nextId)
        ELSE IF known
        THEN BulkRowsCustom(Tail(rows), index + 1,
               MapSet(map, [existingPlayer EXCEPT
                              !.name = row.name, !.category = cat[1],
                              !.rating = IF rating = NULL THEN @ ELSE rating]),
               catErrors, nextId)
        ELSE BulkRowsCustom(Tail(rows), index + 1,
               MapSet(map, NewPlayer(nextId + 1, row.name, row.mobilenumber,
                                     IF rating = NULL THEN DefaultRating
                                     ELSE rating, cat[1])),
               catErrors, nextId + 1)

\* uuid root: results.data.forEach over the rows from position index on
RECURSIVE BulkRowsUuid(_, _, _, _, _)
BulkRowsUuid(rows, index, newPlayers, errors, nextId) ==
  IF rows = << >>
  THEN [players |-> newPlayers, errors |-> errors, nextId |-> nextId]
  ELSE
    LET row == Head(rows)
        rating == IF row.rating # "" THEN RatingOfText(row.rating)
                  ELSE DefaultRating
        cat == CategoryUuid(row.category)
    IN  IF ~IsValidRow(row)
        THEN BulkRowsUuid(Tail(rows), index + 1, newPlayers,
                          Append(errors, Warning(index, "missing")), nextId)
        ELSE BulkRowsUuid(Tail(rows), index + 1,
               Append(newPlayers,
                      NewPlayer(nextId + 1, row.name, row.mobilenumber, rating,
                                cat[1])),
               IF cat[2] THEN Append(errors, Warning(index, "category"))
               ELSE errors,
               nextId + 1)

\* uuid root: newPlayers.filter(p => !existingPlayers.has(mobile-category))
PlayersToAdd(newPlayers, ps) ==
  SelectSeq(newPlayers,
            LAMBDA p : ~\E i \in 1..Len(ps) :
                          ps[i].mobileNumber = p.mobileNumber
                          /\ ps[i].category = p.category)

----------------------------------------------------------------------------
(* Persistence *)

\* JSON.stringify writes NaN as null
JsonNumber(x) == IF x = NaN THEN NULL ELSE x

\* JSON.parse(JSON.stringify(state))
Serialize(st) ==
  [st EXCEPT !.players =
     [i \in 1..Len(st.players) |->
        [st.players[i] EXCEPT !.rating = JsonNumber(st.players[i].rating)]]]

initialState ==
  [players |-> << >>, matches |-> << >>, currentRound |-> 0,
   tournamentSettings |-> << >>, roundSummaries |-> EmptyMap,
   activeFixtureCategories |-> {}, generatedFixtures |-> EmptyMap,
   publishedFixtures |-> EmptyMap, isGeneratingFixture |-> EmptyMap,
   isLoadingSummary |-> FALSE, isBulkUploadingPlayers |-> FALSE]

\* the fields a blob written by an older version lacks
NewerFields ==
  {"generatedFixtures", "publishedFixtures", "isGeneratingFixture",
   "isBulkUploadingPlayers"}

Without(blob, fields) == [f \in DOMAIN blob \ fields |-> blob[f]]

\* custom-id root: { ...initialState, ...parsedState }
RehydrateCustom(blob) ==
  [f \in DOMAIN initialState |->
     IF f \in DOMAIN blob THEN blob[f] ELSE initialState[f]]

\* uuid root: { ...parsedState, generatedFixtures: parsed.generatedFixtures
\* || {}, publishedFixtures: parsed.publishedFixtures || {}, ... }
RehydrateUuid(blob) ==
  [f \in DOMAIN blob \cup NewerFields |->
     IF f \in DOMAIN blob THEN blob[f] ELSE initialState[f]]

----------------------------------------------------------------------------
(* The state after construction and the handlers of the two roots.         *)
(* The handlers are driven as the admin screens drive them: a guard that   *)
(* is a disabled or hidden control is marked "screen".                     *)

Roots == {"custom", "uuid"}

Init ==
  /\ root \in Roots
  /\ apiKey \in BOOLEAN
  /\ isGeneratingFixture = EmptyMap
  /\ fixtureAlert = ""
  /\ players = << >>
  /\ matches = << >>
  /\ currentRound = 0
  /\ tournamentSettings = << >>
  /\ roundSummaries = EmptyMap
  /\ generatedFixtures = EmptyMap
  /\ publishedFixtures = EmptyMap
  /\ isLoadingSummary = FALSE
  /\ isBulkUploadingPlayers = FALSE
  /\ currentId = 0
  /\ activeFixtureCategories = {}
  /\ calls = << >>
  /\ fixtureCalls = << >>
  /\ warnings = << >>

\* handleAddPlayer / addPlayer(name, mobileNumber, category)
AddPlayerNamed(name, mobileNumber) ==
  /\ players' = Append(players,
                   NewPlayer(currentId + 1, name, mobileNumber, DefaultRating,
                             DEFAULT_PLAYER_CATEGORY))
  /\ currentId' = currentId + 1
  /\ UNCHANGED <<root, apiKey, isBulkUploadingPlayers, fixtureAlert, isGeneratingFixture, matches, currentRound, tournamentSettings,
                 roundSummaries, generatedFixtures, publishedFixtures,
                 isLoadingSummary, activeFixtureCategories, calls,
                 fixtureCalls, warnings>>

\* registration before a tournament run: the next name of the roster
AddPlayer ==
  /\ Len(players) < MaxPlayers
  /\ currentRound = 0
  /\ AddPlayerNamed(Roster[Len(players) + 1], Roster[Len(players) + 1])

\* the reset every start of a knockout performs besides its matches
StartReset(settings, initialMatches) ==
  /\ tournamentSettings' = settings
  /\ matches' = initialMatches
  /\ currentRound' = 1
  /\ activeFixtureCategories' = {}
  /\ generatedFixtures' = EmptyMap
  /\ publishedFixtures' = EmptyMap
  /\ roundSummaries' = EmptyMap
  /\ isGeneratingFixture' = EmptyMap
  /\ currentId' = currentId + Len(initialMatches)
  /\ UNCHANGED <<root, apiKey, isBulkUploadingPlayers, fixtureAlert, players, isLoadingSummary, calls, fixtureCalls,
                 warnings>>

\* custom-id root: startKnockoutTournament(settings)
StartKnockoutTournament(selected, shuffled) ==
  LET eligiblePlayers == SelectSeq(players, LAMBDA p : p.id \in selected)
  IN  IF Cardinality(selected) < 2 THEN UNCHANGED vars
      ELSE /\ shuffled \in Shuffles(eligiblePlayers)
           /\ StartReset(Settings("knockout", selected),
                 MatchesOfPairs(
                   AdjacentPairs(shuffled,
                     IF eligiblePlayers = << >> THEN ""
                     ELSE eligiblePlayers[1].category),
                   currentId, 1))

\* uuid root: startTournament(settings) with settings.matchFormat = knockout
StartTournament(selected) ==
  LET selectedPlayers == SelectSeq(players, LAMBDA p : p.id \in selected)
  IN  IF Len(players) < 2 \/ Len(selectedPlayers) < 2 THEN UNCHANGED vars
      ELSE StartReset(Settings("knockout", selected),
             MatchesOfPairs(FirstLastPairs(selectedPlayers), currentId, 1))

\* the ids an admin can have ticked: the ticks are kept in the setup panel
\* and are not pruned when a player is deleted, so they are ids of players
\* registered now or earlier
Selectable == 1..currentId

\* screen: the start button is disabled once currentRound > 0 and while
\* fewer than two players are ticked
StartKnockout ==
  /\ currentRound = 0
  /\ \E selected \in SUBSET Selectable :
       /\ Cardinality(selected) >= 2
       /\ IF root = "custom"
          THEN \E shuffled \in Shuffles(SelectSeq(players,
                                           LAMBDA p : p.id \in selected)) :
                 StartKnockoutTournament(selected, shuffled)
          ELSE StartTournament(selected)

\* handleUpdateMatchScore / updateMatchScore(matchId, score1, score2)
UpdateMatchScore(matchId, score1, score2) ==
  /\ matches' = ScoreMatches(matches, matchId, score1, score2)
  /\ players' =
       IF root = "custom" /\ \E i \in 1..Len(matches) : matches[i].id = matchId
       THEN ScorePlayers(players,
              matches[CHOOSE i \in 1..Len(matches) : matches[i].id = matchId],
              score1, score2)
       ELSE players
  /\ UNCHANGED <<root, apiKey, isBulkUploadingPlayers, fixtureAlert, isGeneratingFixture, currentRound, tournamentSettings, roundSummaries,
                 generatedFixtures, publishedFixtures, isLoadingSummary,
                 currentId, activeFixtureCategories, calls, fixtureCalls,
                 warnings>>

\* match.score || 0
OrZero(score) == IF score = NULL THEN 0 ELSE score

\* MatchSchedule.handleScoreChange(matchId, playerNum, value): the other
\* side's score is sent as 0 while it is not set.
\* screen: the boxes of the current round's matches, disabled once complete
HandleScoreChange ==
  \E i \in 1..Len(matches), playerNum \in {1, 2}, score \in 0..MaxScore :
    /\ matches[i].round = currentRound
    /\ ~matches[i].isComplete
    /\ IF playerNum = 1
       THEN UpdateMatchScore(matches[i].id, score, OrZero(matches[i].score2))
       ELSE UpdateMatchScore(matches[i].id, OrZero(matches[i].score1), score)

\* What a pending completion reads, after its await, of the render it was
\* invoked in. Custom-id root: the id and category of the players
\* (generateKnockoutMatchesForRound), the round the summary was requested
\* for, and whether generateRoundSummary threw:
\* it calls playerMap.find, which a Map does not have, for every match it is
\* given to describe. Uuid root: state.players, currentRoundMatches,
\* state.currentRound and the match format; thrown is set by completeRound
\* when the client library refuses to be constructed without an API key.
Closure ==
  IF root = "custom"
  THEN [players |-> [i \in 1..Len(players) |->
                        [id |-> players[i].id,
                         category |-> players[i].category]],
        currentRound |-> currentRound,
        thrown |-> RoundMatches(matches, currentRound) # << >>]
  ELSE [players |-> players,
        currentRoundMatches |-> RoundMatches(matches, currentRound),
        currentRound |-> currentRound,
        matchFormat |-> FormatOf(tournamentSettings),
        thrown |-> FALSE]

\* custom-id root: handleCompleteRound up to its await (of the summary, or of
\* the rejection when generateRoundSummary threw)
HandleCompleteRound ==
  IF ~IsRoundComplete(matches, currentRound) THEN UNCHANGED vars
  ELSE /\ isLoadingSummary' = TRUE
       /\ calls' = Append(calls, Closure)
       /\ UNCHANGED <<root, apiKey, isBulkUploadingPlayers, fixtureAlert, isGeneratingFixture, players, matches, currentRound, tournamentSettings,
                      roundSummaries, generatedFixtures, publishedFixtures,
                      currentId, activeFixtureCategories, fixtureCalls,
                      warnings>>

\* uuid root: new GoogleGenAI({ apiKey: process.env.API_KEY }) stands outside
\* the try of generateRoundSummary; with a key it returns a client, without
\* one the library of the build either throws or returns a client whose
\* requests carry no key
ConstructorThrows == IF apiKey THEN {FALSE} ELSE {TRUE, FALSE}

\* uuid root: completeRound up to its await (step 1 and the loading flag)
CompleteRoundInvoke ==
  IF tournamentSettings = << >> \/ ~IsRoundComplete(matches, currentRound)
  THEN UNCHANGED vars
  ELSE /\ players' = RoundResults(players, RoundMatches(matches, currentRound))
       /\ isLoadingSummary' = TRUE
       /\ \E thrown \in ConstructorThrows :
            calls' = Append(calls, [Closure EXCEPT !.thrown = thrown])
       /\ UNCHANGED <<root, apiKey, isBulkUploadingPlayers, fixtureAlert, isGeneratingFixture, matches,
                      currentRound, tournamentSettings, roundSummaries,
                      generatedFixtures, publishedFixtures, currentId,
                      activeFixtureCategories, fixtureCalls, warnings>>

\* MatchSchedule: the Complete Round button is rendered while the tournament
\* is not completed (uuid root: and currentRound > 0) and enabled while the
\* round is complete
CompleteRoundAvailable ==
  /\ IsRoundComplete(matches, currentRound)
  /\ IF root = "custom"
     THEN ~IsTournamentCompletedCustom(matches, currentRound, tournamentSettings)
     ELSE /\ currentRound > 0
          /\ ~IsTournamentCompletedUuid(matches, currentRound,
                                        tournamentSettings)

\* screen: the Complete Round button
CompleteRound ==
  /\ Len(calls) < MaxCalls
  /\ currentRound + Len(calls) < MaxRound
  /\ CompleteRoundAvailable
  /\ IF root = "custom" THEN HandleCompleteRound ELSE CompleteRoundInvoke

RemoveAt(s, i) == SubSeq(s, 1, i - 1) \o SubSeq(s, i + 1, Len(s))

\* custom-id root: the catch of handleCompleteRound, which only alerts and
\* clears the loading flag
HandleCompleteRoundCatch ==
  /\ isLoadingSummary' = FALSE
  /\ UNCHANGED <<root, apiKey, isBulkUploadingPlayers, fixtureAlert, isGeneratingFixture, players, matches, currentRound, tournamentSettings,
                 roundSummaries, generatedFixtures, publishedFixtures,
                 currentId, activeFixtureCategories, fixtureCalls, warnings>>

\* custom-id root: the state update after the summary arrived
HandleCompleteRoundApply(c, summary, shuffled) ==
  LET nextRound == currentRound + 1
      previousRoundMatches == RoundMatches(matches, currentRound)
      format == FormatOf(tournamentSettings)
      nextMatches ==
        IF format = "knockout" /\ Len(shuffled) >= 2
        THEN MatchesOfPairs(WinnerPairs(shuffled, c.players), currentId, nextRound)
        ELSE << >>
      tournamentIsCompleted ==
        IF format = "knockout"
        THEN \/ (nextMatches = << >> /\ previousRoundMatches # << >>)
             \/ (nextMatches = << >> /\ previousRoundMatches = << >>
                 /\ currentRound = 1)
        ELSE format \in {"round-robin", "hybrid"}
  IN  /\ matches' = matches \o nextMatches
      /\ currentId' = currentId + Len(nextMatches)
      /\ currentRound' = IF tournamentIsCompleted THEN currentRound ELSE nextRound
      /\ roundSummaries' =
           [r \in DOMAIN roundSummaries \cup {currentRound} |->
              IF r = currentRound THEN summary ELSE roundSummaries[r]]
      /\ isLoadingSummary' = FALSE
      /\ UNCHANGED <<root, apiKey, isBulkUploadingPlayers, fixtureAlert, isGeneratingFixture, players, tournamentSettings, generatedFixtures,
                     publishedFixtures, activeFixtureCategories, fixtureCalls,
                     warnings>>

\* uuid root: everything completeRound does after the summary arrived or the
\* routine rejected (the catch alerts and the handler goes on), for the
\* knockout and round-robin formats (no further await)
CompleteRoundApply(c, summary) ==
  LET winners == Winners(c.players, c.currentRoundMatches)
      nextRoundMatches ==
        IF c.matchFormat = "knockout" /\ Len(winners) >= 2
        THEN MatchesOfPairs(FirstLastPairs(winners), currentId,
                            c.currentRound + 1)
        ELSE << >>
  IN  /\ roundSummaries' =
           IF c.thrown THEN roundSummaries
           ELSE [r \in DOMAIN roundSummaries \cup {currentRound} |->
                   IF r = currentRound THEN summary ELSE roundSummaries[r]]
      /\ isLoadingSummary' = FALSE
      /\ currentRound' = currentRound + 1
      /\ matches' = matches \o nextRoundMatches
      /\ currentId' = currentId + Len(nextRoundMatches)
      /\ tournamentSettings' =
           IF tournamentSettings = << >> THEN << >>
           ELSE <<[tournamentSettings[1] EXCEPT !.customFixtureUploaded = FALSE]>>
      /\ UNCHANGED <<root, apiKey, isBulkUploadingPlayers, fixtureAlert, isGeneratingFixture, players, generatedFixtures, publishedFixtures,
                     activeFixtureCategories, fixtureCalls, warnings>>

\* the continuation of pending completion i: the summary service answered
\* with a text or the routine returned its placeholder, or (custom-id root)
\* the routine had thrown
SummaryReturnOf(i, summary) ==
  /\ calls' = RemoveAt(calls, i)
  /\ IF root = "uuid" THEN CompleteRoundApply(calls[i], summary)
     ELSE IF calls[i].thrown THEN HandleCompleteRoundCatch
     ELSE \E shuffled \in Shuffles(WinnerLookups(
                              RoundMatches(matches, currentRound),
                              calls[i].players)) :
            HandleCompleteRoundApply(calls[i], summary, shuffled)

SummaryReturn ==
  \E i \in 1..Len(calls), summary \in SummaryTexts : SummaryReturnOf(i, summary)

\* custom-id root: handleAddFixtureMatchesToTournament(category, fixture);
\* the format of the default settings is the one of the panel that holds the
\* button
HandleAddFixtureMatchesToTournament(category, fixture) ==
  LET newMatches == FixtureMatches(fixture, players, category, currentId,
                                   "last")
  IN  /\ matches' = matches \o newMatches
      /\ currentId' = currentId + Len(newMatches)
      /\ activeFixtureCategories' = activeFixtureCategories \cup {category}
      /\ currentRound' = IF currentRound = 0 /\ newMatches # << >> THEN 1
                         ELSE currentRound
      /\ tournamentSettings' =
           IF tournamentSettings # << >> THEN tournamentSettings
           ELSE Settings("round-robin",
                  {IdByNameLast(players, players[i].name) : i \in 1..Len(players)})
      /\ UNCHANGED <<root, apiKey, isBulkUploadingPlayers, fixtureAlert, isGeneratingFixture, players, roundSummaries, generatedFixtures,
                     publishedFixtures, isLoadingSummary, calls, fixtureCalls,
                     warnings>>

\* uuid root: addCategoryFixtureMatchesToTournament(category, fixture)
AddCategoryFixtureMatchesToTournament(category, fixture) ==
  LET newMatches == FixtureMatches(fixture, players, category, currentId,
                                   "first")
  IN  IF tournamentSettings = << >> \/ newMatches = << >> THEN UNCHANGED vars
      ELSE /\ matches' = matches \o newMatches
           /\ currentId' = currentId + Len(newMatches)
           /\ activeFixtureCategories' = activeFixtureCategories \cup {category}
           /\ UNCHANGED <<root, apiKey, isBulkUploadingPlayers, fixtureAlert, isGeneratingFixture, players, currentRound, tournamentSettings,
                          roundSummaries, generatedFixtures, publishedFixtures,
                          isLoadingSummary, calls, fixtureCalls, warnings>>

AddFixtureMatchesToTournament(category, fixture) ==
  IF root = "custom" THEN HandleAddFixtureMatchesToTournament(category, fixture)
  ELSE AddCategoryFixtureMatchesToTournament(category, fixture)

\* the players of a category: players.filter(p => p.category === category)
CategoryPlayers(ps, category) == SelectSeq(ps, LAMBDA p : p.category = category)

\* the fixtures of at most MaxImportRows rows the panel can hold for a category
FixtureInputs(category) ==
  IF Len(CategoryPlayers(players, category)) < 2 THEN {}
  ELSE {r.rows : r \in {x \in GeneratorResponses(
                                Names(CategoryPlayers(players, category))) :
                          x.ok /\ Len(x.rows) \in 1..MaxImportRows}}

\* screen: the Add Fixture Matches button, disabled once currentRound > 0 or
\* when the category is active
ImportFixture ==
  /\ currentRound = 0
  /\ DEFAULT_PLAYER_CATEGORY \notin activeFixtureCategories
  /\ \E fixture \in FixtureInputs(DEFAULT_PLAYER_CATEGORY) :
       AddFixtureMatchesToTournament(DEFAULT_PLAYER_CATEGORY, fixture)

\* a row of an uploaded fixture file with the columns player1, player2,
\* category and group (the optional round column is absent)
CustomRow(player1, player2, category, group) ==
  [player1 |-> player1, player2 |-> player2, round |-> 0,
   category |-> category, group |-> group]

HYBRID_GROUP == "Group-1"

\* the rows of a fixture file made into matches without a check of the names
HybridFixtureMatchesUnchecked(fixtureData, ps, firstId) ==
  [k \in 1..Len(fixtureData) |->
     NewMatch(firstId + k, IdByNameLast(ps, fixtureData[k].player1),
              IdByNameLast(ps, fixtureData[k].player2),
              IF fixtureData[k].round # 0 THEN fixtureData[k].round ELSE 1,
              fixtureData[k].category, fixtureData[k].group)]

\* fixtureData.map(row => match or null).filter(m => m !== null) of
\* handleAddHybridFixtureMatchesToTournament: names looked up in a Map,
\* round, category and group taken from the row
HybridFixtureMatches(fixtureData, ps, firstId) ==
  LET found == SelectSeq(fixtureData,
                 LAMBDA f : IdByNameLast(ps, f.player1) # NULL
                            /\ IdByNameLast(ps, f.player2) # NULL)
  IN  [k \in 1..Len(found) |->
         NewMatch(firstId + k, IdByNameLast(ps, found[k].player1),
                  IdByNameLast(ps, found[k].player2),
                  IF found[k].round # 0 THEN found[k].round ELSE 1,
                  found[k].category, found[k].group)]

\* custom-id root: handleUploadCustomFixture(file), which stores the rows,
\* sets the hybrid format and calls handleAddHybridFixtureMatchesToTournament
HandleUploadCustomFixture(customFixture) ==
  LET newMatches == HybridFixtureMatches(customFixture, players, currentId)
  IN  IF customFixture = << >> THEN UNCHANGED vars
      ELSE /\ generatedFixtures' =
                [key \in DOMAIN generatedFixtures \cup {"customUploaded"} |->
                   IF key = "customUploaded" THEN customFixture
                   ELSE generatedFixtures[key]]
           /\ tournamentSettings' =
                IF tournamentSettings = << >>
                THEN <<[matchFormat |-> "hybrid", selectedPlayerIds |-> {},
                        customFixtureUploaded |-> TRUE]>>
                ELSE <<[tournamentSettings[1] EXCEPT
                          !.matchFormat = "hybrid",
                          !.customFixtureUploaded = TRUE]>>
           /\ matches' = matches \o newMatches
           /\ currentId' = currentId + Len(newMatches)
           /\ activeFixtureCategories' =
                activeFixtureCategories
                  \cup {customFixture[k].category : k \in 1..Len(customFixture)}
                  \cup {customFixture[k].category \o "-" \o customFixture[k].group :
                          k \in 1..Len(customFixture)}
           /\ currentRound' = IF currentRound = 0 /\ newMatches # << >> THEN 1
                              ELSE currentRound
           /\ UNCHANGED <<root, apiKey, isBulkUploadingPlayers, fixtureAlert, isGeneratingFixture, players, roundSummaries, publishedFixtures,
                          isLoadingSummary, calls, fixtureCalls, warnings>>

\* uuid root: onUploadCustomFixture(file), which stores the rows; the settings
\* stay null when they are null
OnUploadCustomFixture(customMatches) ==
  IF customMatches = << >> THEN UNCHANGED vars
  ELSE /\ generatedFixtures' =
            [key \in DOMAIN generatedFixtures \cup {"customUploaded"} |->
               IF key = "customUploaded" THEN customMatches
               ELSE generatedFixtures[key]]
       /\ tournamentSettings' =
            IF tournamentSettings = << >> THEN << >>
            ELSE <<[tournamentSettings[1] EXCEPT !.customFixtureUploaded = TRUE]>>
       /\ UNCHANGED <<root, apiKey, isBulkUploadingPlayers, fixtureAlert, isGeneratingFixture, players, matches, currentRound, roundSummaries,
                      publishedFixtures, isLoadingSummary, currentId,
                      activeFixtureCategories, calls, fixtureCalls, warnings>>

\* the fixture files an admin uploads: the first rows of the round robin of
\* the registered players as one group, or a row with an unknown name
\* followed by a row of two registered players
CustomFixtureFiles ==
  LET names == Names(players)
      rows == SubSeq(RoundRobin(names), 1,
                     Min(MaxImportRows, Len(RoundRobin(names))))
  IN  IF Len(players) < 2 THEN {}
      ELSE {[k \in 1..Len(rows) |->
               CustomRow(rows[k].player1, rows[k].player2,
                         DEFAULT_PLAYER_CATEGORY, HYBRID_GROUP)],
            <<CustomRow(names[1], Outsider, DEFAULT_PLAYER_CATEGORY,
                        HYBRID_GROUP),
              CustomRow(names[1], names[2], DEFAULT_PLAYER_CATEGORY,
                        HYBRID_GROUP)>>}

\* screen: the Upload Custom Fixture control of the hybrid panel, disabled
\* once currentRound > 0
UploadCustomFixture ==
  /\ currentRound = 0
  /\ "customUploaded" \notin DOMAIN generatedFixtures
  /\ \E file \in CustomFixtureFiles :
       IF root = "custom" THEN HandleUploadCustomFixture(file)
       ELSE OnUploadCustomFixture(file)

Next ==
  \/ AddPlayer
  \/ StartKnockout
  \/ ImportFixture
  \/ UploadCustomFixture
  \/ HandleScoreChange
  \/ CompleteRound
  \/ SummaryReturn

Spec == Init /\ [][Next]_vars

----------------------------------------------------------------------------
(* The player registry, the cached fixtures and the stored state *)

RegistryNames == {"A", "B"}

Mobiles == <<"1", "2", "3", "4", "5">>

\* screen: the Add Player form; two players may carry the same name
RegisterPlayer ==
  /\ Len(players) < MaxRegistry
  /\ currentId < MaxIds
  /\ \E name \in RegistryNames :
       AddPlayerNamed(name, Mobiles[Len(players) + 1])

\* a file without a byte: file.text() is the empty text
EmptyFile == << >>

\* custom-id root: handleBulkUploadPlayers(file); for the empty text it
\* alerts and returns, and nothing clears the loading flag it had set
HandleBulkUploadPlayers(file) ==
  LET done == BulkRowsCustom(file, 0, MapOfPlayers(<< >>, players), << >>,
                             currentId)
  IN  IF file = EmptyFile
      THEN /\ isBulkUploadingPlayers' = TRUE
           /\ UNCHANGED <<root, apiKey, fixtureAlert, isGeneratingFixture,
                          players, matches, currentRound, tournamentSettings,
                          roundSummaries, generatedFixtures, publishedFixtures,
                          isLoadingSummary, currentId, activeFixtureCategories,
                          calls, fixtureCalls, warnings>>
      ELSE /\ players' = done.players
           /\ warnings' = done.errors
           /\ currentId' = done.nextId
           /\ isBulkUploadingPlayers' = FALSE
           /\ UNCHANGED <<root, apiKey, fixtureAlert, isGeneratingFixture,
                          matches, currentRound, tournamentSettings,
                          roundSummaries, generatedFixtures, publishedFixtures,
                          isLoadingSummary, activeFixtureCategories, calls,
                          fixtureCalls>>

\* uuid root: bulkUploadPlayers(file); every callback clears the loading flag
BulkUploadPlayers(file) ==
  LET done == BulkRowsUuid(file, 0, << >>, << >>, currentId)
      playersToAdd == PlayersToAdd(done.players, players)
  IN  /\ players' = IF done.players # << >> THEN players \o playersToAdd
                    ELSE players
      /\ warnings' =
           IF done.players # << >> /\ Len(playersToAdd) < Len(done.players)
           THEN Append(done.errors, [row |-> 0, kind |-> "duplicate"])
           ELSE done.errors
      /\ currentId' = done.nextId
      /\ isBulkUploadingPlayers' = FALSE
      /\ UNCHANGED <<root, apiKey, fixtureAlert, isGeneratingFixture, matches,
                     currentRound, tournamentSettings, roundSummaries,
                     generatedFixtures, publishedFixtures, isLoadingSummary,
                     activeFixtureCategories, calls, fixtureCalls>>

BulkUploadOf(file) ==
  IF root = "custom" THEN HandleBulkUploadPlayers(file)
  ELSE BulkUploadPlayers(file)

\* screen: the Bulk Upload control, disabled while isBulkUploadingPlayers
BulkUpload ==
  \E file \in Files \cup {EmptyFile} :
    /\ ~isBulkUploadingPlayers
    /\ Len(players) + Len(file) <= MaxRegistry
    /\ currentId + Len(file) <= MaxIds
    /\ BulkUploadOf(file)

\* custom-id root: handleDeletePlayer(id)
HandleDeletePlayer(id) ==
  /\ generatedFixtures' =
       [k \in DOMAIN generatedFixtures |->
          KeptRowsCustom(generatedFixtures[k], players, id)]
  /\ publishedFixtures' =
       [k \in DOMAIN publishedFixtures |->
          KeptRowsCustom(publishedFixtures[k], players, id)]
  /\ matches' = SelectSeq(matches,
                  LAMBDA m : m.player1Id # id /\ m.player2Id # id)
  /\ players' = SelectSeq(players, LAMBDA p : p.id # id)
  /\ UNCHANGED <<root, apiKey, isBulkUploadingPlayers, fixtureAlert, isGeneratingFixture, currentRound, tournamentSettings, roundSummaries,
                 isLoadingSummary, currentId, activeFixtureCategories, calls,
                 fixtureCalls, warnings>>

\* a deletion that drops only the matches the player is the first side of
DeletePlayerFirstSide(id) ==
  /\ players' = SelectSeq(players, LAMBDA p : p.id # id)
  /\ matches' = SelectSeq(matches, LAMBDA m : m.player1Id # id)
  /\ generatedFixtures' =
       [k \in {x \in DOMAIN generatedFixtures :
                 KeptRowsUuid(generatedFixtures[x], players, id) # << >>} |->
          KeptRowsUuid(generatedFixtures[k], players, id)]
  /\ UNCHANGED <<root, apiKey, isBulkUploadingPlayers, fixtureAlert, isGeneratingFixture, currentRound, tournamentSettings, roundSummaries,
                 publishedFixtures, isLoadingSummary, currentId,
                 activeFixtureCategories, calls, fixtureCalls, warnings>>

\* uuid root: deletePlayer(id); a fixture left without rows loses its key
DeletePlayer(id) ==
  /\ players' = SelectSeq(players, LAMBDA p : p.id # id)
  /\ matches' = SelectSeq(matches,
                  LAMBDA m : m.player1Id # id /\ m.player2Id # id)
  /\ generatedFixtures' =
       [k \in {x \in DOMAIN generatedFixtures :
                 KeptRowsUuid(generatedFixtures[x], players, id) # << >>} |->
          KeptRowsUuid(generatedFixtures[k], players, id)]
  /\ UNCHANGED <<root, apiKey, isBulkUploadingPlayers, fixtureAlert, isGeneratingFixture, currentRound, tournamentSettings, roundSummaries,
                 publishedFixtures, isLoadingSummary, currentId,
                 activeFixtureCategories, calls, fixtureCalls, warnings>>

DeletePlayerOf(id) ==
  IF root = "custom" THEN HandleDeletePlayer(id) ELSE DeletePlayer(id)

\* screen: the delete button of a listed player
RemovePlayer == \E id \in PlayerIds(players) : DeletePlayerOf(id)

\* { ...isGeneratingFixture, [category]: flag }
WithFlag(flags, category, flag) ==
  [k \in DOMAIN flags \cup {category} |->
     IF k = category THEN flag ELSE flags[k]]

\* isGeneratingFixture[category], undefined counting as false
IsGenerating(category) ==
  category \in DOMAIN isGeneratingFixture /\ isGeneratingFixture[category]

\* handleGenerateCategoryFixture(category) up to its await: without an API
\* key it alerts and returns, and its finally clears the flag it had set
HandleGenerateCategoryFixture(category) ==
  IF ~apiKey
  THEN /\ isGeneratingFixture' = WithFlag(isGeneratingFixture, category, FALSE)
       /\ fixtureAlert' = "API Key is not configured"
       /\ UNCHANGED <<root, apiKey, isBulkUploadingPlayers, players, matches, currentRound,
                      tournamentSettings, roundSummaries, generatedFixtures,
                      publishedFixtures, isLoadingSummary, currentId,
                      activeFixtureCategories, calls, fixtureCalls, warnings>>
  ELSE /\ isGeneratingFixture' = WithFlag(isGeneratingFixture, category, TRUE)
       /\ fixtureAlert' = ""
       /\ fixtureCalls' =
            Append(fixtureCalls,
                   [category |-> category,
                    names |-> Names(CategoryPlayers(players, category))])
       /\ UNCHANGED <<root, apiKey, isBulkUploadingPlayers, players, matches, currentRound,
                      tournamentSettings, roundSummaries, generatedFixtures,
                      publishedFixtures, isLoadingSummary, currentId,
                      activeFixtureCategories, calls, warnings>>

\* screen: the Generate Fixture button, disabled once currentRound > 0, with
\* fewer than two players in the category and while the category's fixture
\* is being generated; the generator is asked for the names of the
\* category's players of this render
GenerateFixture ==
  /\ currentRound = 0
  /\ Len(fixtureCalls) < MaxFixtureCalls
  /\ \E category \in {players[i].category : i \in 1..Len(players)} :
       /\ Len(CategoryPlayers(players, category)) >= 2
       /\ ~IsGenerating(category)
       /\ HandleGenerateCategoryFixture(category)

\* { ...generatedFixtures, [key]: fixture }
WithFixture(fixtures, key, fixture) ==
  [k \in DOMAIN fixtures \cup {key} |->
     IF k = key THEN fixture ELSE fixtures[k]]

\* custom-id root: generateRoundRobinFixture returns the parsed array as it
\* is, or throws and the handler alerts. uuid root:
\* generateCategoryFixtureWithGemini returns the parsed array, or logs the
\* error and returns [], and the handler stores what it returns without an
\* alert. The finally of both handlers clears the loading flag.
AcceptFixture(call, response) ==
  /\ generatedFixtures' =
       IF root = "custom"
       THEN IF response.ok
            THEN WithFixture(generatedFixtures, call.category, response.rows)
            ELSE generatedFixtures
       ELSE WithFixture(generatedFixtures, call.category,
                        IF response.ok THEN response.rows ELSE << >>)
  /\ isGeneratingFixture' = WithFlag(isGeneratingFixture, call.category, FALSE)
  /\ fixtureAlert' = IF root = "custom" /\ ~response.ok
                     THEN "Failed to generate round-robin fixture" ELSE ""
  /\ UNCHANGED <<root, apiKey, isBulkUploadingPlayers, players, matches, currentRound,
                 tournamentSettings, roundSummaries, publishedFixtures,
                 isLoadingSummary, currentId, activeFixtureCategories, calls,
                 warnings>>

\* the generator answers one pending fixture generation
FixtureReturn ==
  \E i \in 1..Len(fixtureCalls) :
    \E response \in GeneratorResponses(fixtureCalls[i].names) :
      /\ fixtureCalls' = RemoveAt(fixtureCalls, i)
      /\ AcceptFixture(fixtureCalls[i], response)

\* isFixturePublished(categoryKey)
IsFixturePublished(key) ==
  /\ key \in DOMAIN publishedFixtures
  /\ root = "uuid" => publishedFixtures[key] # << >>

\* handlePublishFixture(categoryKey); the uuid root refuses an empty fixture.
\* screen: shown for a generated fixture that has rows, disabled once
\* currentRound > 0 and when already published
PublishFixture ==
  /\ currentRound = 0
  /\ \E key \in DOMAIN generatedFixtures :
       /\ generatedFixtures[key] # << >>
       /\ ~IsFixturePublished(key)
       /\ publishedFixtures' =
            IF root = "uuid" /\ generatedFixtures[key] = << >>
            THEN publishedFixtures
            ELSE WithFixture(publishedFixtures, key, generatedFixtures[key])
  /\ UNCHANGED <<root, apiKey, isBulkUploadingPlayers, fixtureAlert, isGeneratingFixture, players, matches, currentRound, tournamentSettings,
                 roundSummaries, generatedFixtures, isLoadingSummary,
                 currentId, activeFixtureCategories, calls, fixtureCalls,
                 warnings>>

\* the state as the persist effect sees it
State ==
  [players |-> players, matches |-> matches, currentRound |-> currentRound,
   tournamentSettings |-> tournamentSettings,
   roundSummaries |-> roundSummaries,
   activeFixtureCategories |-> activeFixtureCategories,
   generatedFixtures |-> generatedFixtures,
   publishedFixtures |-> publishedFixtures,
   isGeneratingFixture |-> isGeneratingFixture,
   isLoadingSummary |-> isLoadingSummary,
   isBulkUploadingPlayers |-> isBulkUploadingPlayers]

Rehydrate(blob) ==
  IF root = "custom" THEN RehydrateCustom(blob) ELSE RehydrateUuid(blob)

\* the page is loaded again from the blob the persist effect wrote (missing =
\* {}), or from that blob as an older version would have written it
ReloadFrom(missing) ==
  LET st == Rehydrate(Without(Serialize(State), missing))
  IN  /\ players' = st.players
      /\ matches' = st.matches
      /\ currentRound' = st.currentRound
      /\ tournamentSettings' = st.tournamentSettings
      /\ roundSummaries' = st.roundSummaries
      /\ activeFixtureCategories' = st.activeFixtureCategories
      /\ generatedFixtures' = st.generatedFixtures
      /\ publishedFixtures' = st.publishedFixtures
      /\ isLoadingSummary' = st.isLoadingSummary
      /\ isGeneratingFixture' = st.isGeneratingFixture
      /\ isBulkUploadingPlayers' = st.isBulkUploadingPlayers
      /\ calls' = << >>
      /\ fixtureCalls' = << >>
      /\ warnings' = << >>
      /\ UNCHANGED <<root, apiKey, fixtureAlert, currentId>>

Reload == \E missing \in {{}, NewerFields} : ReloadFrom(missing)

\* the roster: registration by hand and by file, deletion, the start of a
\* knockout and the reload of the page
NextRoster ==
  \/ RegisterPlayer
  \/ BulkUpload
  \/ RemovePlayer
  \/ StartKnockout
  \/ Reload

SpecRoster == Init /\ [][NextRoster]_vars

\* the cached fixtures: generation and publication, and what deletion and
\* reload do to them
NextFixtures ==
  \/ RegisterPlayer
  \/ RemovePlayer
  \/ GenerateFixture
  \/ FixtureReturn
  \/ PublishFixture
  \/ Reload

SpecFixtures == Init /\ [][NextFixtures]_vars

----------------------------------------------------------------------------
(* The properties checked *)

Total(p) == p.wins + p.losses + p.draws

HasIncompleteMatch ==
  \E i \in 1..Len(matches) :
    matches[i].round = currentRound /\ ~matches[i].isComplete

\* C1: while some match of the current round is incomplete, a round
\* completion (the press of the button as well as the update applied once
\* the summary has arrived) leaves currentRound, matches, players and
\* roundSummaries unchanged.
C1_NoEffectWhileIncomplete ==
  [][(HasIncompleteMatch /\ (CompleteRound \/ SummaryReturn))
       => UNCHANGED <<currentRound, matches, players, roundSummaries>>]_vars

\* the matches of sequence ms that player id plays in
Involving(ms, id) ==
  SelectSeq(ms, LAMBDA m : m.player1Id = id \/ m.player2Id = id)

\* C2: completing a match adds exactly 1 to wins + losses + draws of each of
\* its players: in the custom-id root at the score entry that completes the
\* match, in the uuid root when completeRound processes the round (one for
\* each match of the round the player is in).
C2_OneResultPerMatch ==
  [][/\ (root = "custom" /\ HandleScoreChange) =>
          \A i \in 1..Len(matches) :
            (~matches[i].isComplete /\ matches'[i].isComplete) =>
              \A k \in 1..Len(players) :
                players[k].id \in {matches[i].player1Id, matches[i].player2Id}
                  => Total(players'[k]) = Total(players[k]) + 1
     /\ (root = "uuid" /\ CompleteRound /\ Len(calls') > Len(calls)) =>
          \A k \in 1..Len(players) :
            Total(players'[k]) =
              Total(players[k])
                + Len(Involving(RoundMatches(matches, currentRound),
                                players[k].id))]_vars

\* C3: a complete match has winnerId player1Id, player2Id or null: null
\* exactly when the scores are equal, player1Id exactly when score1 > score2,
\* player2Id exactly when score2 > score1; an incomplete match has no winner.
C3_WinnerMatchesScores ==
  \A i \in 1..Len(matches) :
    LET m == matches[i]
    IN  IF m.isComplete
        THEN /\ m.winnerId \in {m.player1Id, m.player2Id, NULL}
             /\ (m.winnerId = NULL) <=> (m.score1 = m.score2)
             /\ (m.winnerId = m.player1Id) <=> (m.score1 > m.score2)
             /\ (m.winnerId = m.player2Id) <=> (m.score2 > m.score1)
        ELSE m.winnerId = NULL

\* C4: a match is complete if and only if both its scores are set; a match
\* that appears (knockout start, fixture import, next-round generation) has
\* no scores and is incomplete; a complete match stays complete.
C4_CompleteIffScored ==
  /\ [](\A i \in 1..Len(matches) :
          matches[i].isComplete
            <=> (matches[i].score1 # NULL /\ matches[i].score2 # NULL))
  /\ [][\A j \in 1..Len(matches') :
          IF \E i \in 1..Len(matches) : matches[i].id = matches'[j].id
          THEN \A i \in 1..Len(matches) :
                 (matches[i].id = matches'[j].id /\ matches[i].isComplete)
                   => matches'[j].isComplete
          ELSE /\ matches'[j].score1 = NULL
               /\ matches'[j].score2 = NULL
               /\ ~matches'[j].isComplete]_vars

\* a scored match next to an unscored match of the second round, and an
\* imported match that has been scored
C4_Witness ==
  \/ \E i, j \in 1..Len(matches) :
       /\ matches[i].isComplete /\ matches[i].score2 = 0
       /\ matches[j].round = 2 /\ ~matches[j].isComplete
  \/ /\ FormatOf(tournamentSettings) = "round-robin"
     /\ \E i, j \in 1..Len(matches) :
          i # j /\ matches[i].isComplete /\ ~matches[j].isComplete

\* C5: deleting a player removes the player and every match that has the
\* player on one side, and leaves the other players and matches as they are.
C5_DeleteCascade ==
  [][\A id \in PlayerIds(players) :
       DeletePlayerOf(id) =>
         /\ ~HasPlayer(players', id)
         /\ \A j \in 1..Len(matches') :
              matches'[j].player1Id # id /\ matches'[j].player2Id # id
         /\ Range(players') = {p \in Range(players) : p.id # id}
         /\ Len(players') = Len(players) - 1
         /\ Range(matches') =
              {m \in Range(matches) : m.player1Id # id /\ m.player2Id # id}
         /\ Len(matches') = Len(matches) - Len(Involving(matches, id))]_vars

\* a started knockout that lost its only match to the deletion of one of its
\* selected players while another player is still registered
C5_Witness ==
  /\ currentRound = 1
  /\ matches = << >>
  /\ players # << >>
  /\ tournamentSettings # << >>
  /\ \E id \in tournamentSettings[1].selectedPlayerIds : ~HasPlayer(players, id)

\* the rows of every fixture cached under some key
CachedRows(fixtures) ==
  UNION {Range(fixtures[k]) : k \in DOMAIN fixtures}

\* C6: after a player is deleted no pairing of generatedFixtures or of
\* publishedFixtures carries the deleted player's name, whether or not
\* another registered player has that name too.
C6_NoCachedRowNamesDeleted ==
  [][\A id \in PlayerIds(players) :
       DeletePlayerOf(id) =>
         \A row \in CachedRows(generatedFixtures')
                      \cup CachedRows(publishedFixtures') :
           /\ row.player1 # FindPlayer(players, id).name
           /\ row.player2 # FindPlayer(players, id).name]_vars

\* the final of a knockout between exactly two registered players, recorded
\* as a win of the first
FinalWonByFirst ==
  /\ Len(players) = 2
  /\ FormatOf(tournamentSettings) = "knockout"
  /\ currentRound = 1
  /\ Len(matches) = 1
  /\ matches[1].isComplete
  /\ matches[1].winnerId = players[1].id
  /\ matches[1].player1Id # matches[1].player2Id

\* the outcome the two-player knockout has to end in
FinalResultIn ==
  /\ players[1].wins = 1
  /\ players[2].losses = 1
  /\ players[1].rating > DefaultRating
  /\ players[2].rating < DefaultRating
  /\ \A i \in 1..Len(matches) : matches[i].round # 2
  /\ IF root = "custom"
     THEN IsTournamentCompletedCustom(matches, currentRound, tournamentSettings)
     ELSE IsTournamentCompletedUuid(matches, currentRound, tournamentSettings)

\* C7: in a knockout of two players A and B whose match is recorded as a win
\* of A, either the outcome is in (A.wins = 1, B.losses = 1, A above and B
\* below 1500, no round-2 match, tournament completed), or the Complete Round
\* step that brings it is available or already under way.
C7_TwoPlayerKnockout ==
  FinalWonByFirst => (FinalResultIn \/ CompleteRoundAvailable \/ calls # << >>)

\* the category and the rating a valid roster row asks for
RowCategory(row) ==
  IF row.category = "" THEN DEFAULT_PLAYER_CATEGORY
  ELSE IF row.category = "40" THEN "40+"
  ELSE row.category

RowRating(row) ==
  IF row.rating = "" THEN DefaultRating ELSE RatingOfText(row.rating)

\* C8: after a roster file is imported, every row with a name and a mobile
\* number has a registered player with its name, mobile number, category and
\* rating (1500 when absent), also when two such rows share a mobile number;
\* a row lacking the name or the mobile number has a warning and adds no
\* player.
C8_BulkImportRows ==
  [][\A file \in Files :
       (/\ Len(players) + Len(file) <= MaxRegistry
        /\ currentId + Len(file) <= MaxIds
        /\ BulkUploadOf(file)) =>
         /\ \A k \in 1..Len(file) :
              IF IsValidRow(file[k])
              THEN \E i \in 1..Len(players') :
                     /\ players'[i].name = file[k].name
                     /\ players'[i].mobileNumber = file[k].mobilenumber
                     /\ players'[i].category = RowCategory(file[k])
                     /\ players'[i].rating = RowRating(file[k])
              ELSE \E w \in 1..Len(warnings') :
                     warnings'[w] = Warning(k - 1, "missing")
         /\ Len(players') <= Len(players)
              + Cardinality({k \in 1..Len(file) : IsValidRow(file[k])})]_vars

\* C9: the state rehydrated from the stored blob has the players, matches,
\* currentRound and tournamentSettings of the state that was stored; the
\* fields an older blob lacks get their defaults, the stored ones are kept.
C9_PersistenceRoundTrip ==
  [][\A missing \in {{}, NewerFields} :
       ReloadFrom(missing) =>
         /\ players' = players
         /\ matches' = matches
         /\ currentRound' = currentRound
         /\ tournamentSettings' = tournamentSettings
         /\ roundSummaries' = roundSummaries
         /\ generatedFixtures' =
              IF missing = {} THEN generatedFixtures ELSE EmptyMap
         /\ publishedFixtures' =
              IF missing = {} THEN publishedFixtures ELSE EmptyMap]_vars

\* every unordered pair of different names of the list occurs in exactly one
\* row, and there are no other rows
IsRoundRobinOf(fixture, names) ==
  /\ 2 * Len(fixture) = Len(names) * (Len(names) - 1)
  /\ \A k \in 1..Len(fixture) :
       /\ fixture[k].player1 # fixture[k].player2
       /\ fixture[k].player1 \in Range(names)
       /\ fixture[k].player2 \in Range(names)
  /\ \A i, j \in 1..Len(names) :
       i < j =>
         Cardinality({k \in 1..Len(fixture) :
                        {fixture[k].player1, fixture[k].player2}
                          = {names[i], names[j]}}) = 1

\* C10: the fixture stored in generatedFixtures for a category is a complete
\* round robin of the players it was generated for, whatever the generator
\* answered.
C10_AcceptedFixtureIsRoundRobin ==
  [][\A i \in 1..Len(fixtureCalls) :
       \A response \in GeneratorResponses(fixtureCalls[i].names) :
         (/\ fixtureCalls' = RemoveAt(fixtureCalls, i)
          /\ AcceptFixture(fixtureCalls[i], response)
          /\ (root = "uuid" \/ response.ok)) =>
           IsRoundRobinOf(generatedFixtures'[fixtureCalls[i].category],
                          fixtureCalls[i].names)]_vars

\* the text a summary routine returns when its request failed
Placeholder == "Failed to generate round summary."

\* the completed state the screens show
IsTournamentCompleted ==
  IF root = "custom"
  THEN IsTournamentCompletedCustom(matches, currentRound, tournamentSettings)
  ELSE IsTournamentCompletedUuid(matches, currentRound, tournamentSettings)

\* pending completion i was invoked for the current round, which has matches
\* (in the custom-id root the round only moves while no such completion is
\* pending, and the summary routine threw for it)
PendingForCurrentRound(i) ==
  /\ RoundMatches(matches, currentRound) # << >>
  /\ IF root = "custom" THEN calls[i].thrown
     ELSE calls[i].currentRound = currentRound

\* C11: when the summary of a completed round could not be obtained (the
\* request failed, or the summary routine threw), the continuation stores the
\* placeholder as that round's summary, clears isLoadingSummary and advances
\* the round or leaves the tournament completed.
C11_SummaryFailureAdvances ==
  [][\A i \in 1..Len(calls) :
       (/\ PendingForCurrentRound(i)
        /\ IsRoundComplete(matches, currentRound)
        /\ SummaryReturnOf(i, Placeholder)) =>
         /\ currentRound \in DOMAIN roundSummaries'
         /\ roundSummaries'[currentRound] = Placeholder
         /\ ~isLoadingSummary'
         /\ \/ currentRound' = currentRound + 1
            \/ IsTournamentCompleted']_vars

\* { ...roundSummaries, [round]: summary }
WithSummary(summaries, round, summary) ==
  [r \in DOMAIN summaries \cup {round} |->
     IF r = round THEN summary ELSE summaries[r]]

\* C12: the text obtained for the round a completion was invoked for is
\* stored under that round's key, and the summaries under the other keys are
\* unchanged, whatever happened while the request was pending.
C12_SummaryKeyedByItsRound ==
  [][\A i \in 1..Len(calls) : \A summary \in SummaryTexts :
       (/\ SummaryReturnOf(i, summary)
        /\ ~calls[i].thrown) =>
         roundSummaries' =
           WithSummary(roundSummaries, calls[i].currentRound, summary)]_vars

\* the ids of the players who won a match of round r
WinnerIds(ms, r) ==
  {m.winnerId : m \in {x \in Range(RoundMatches(ms, r)) : x.winnerId # NULL}}

\* the matches of round r are n matches between distinct players of set ids,
\* no player in two of them
IsPairingOf(ms, r, ids, n) ==
  LET round == RoundMatches(ms, r)
  IN  /\ Len(round) = n
      /\ \A k \in 1..Len(round) :
           /\ round[k].player1Id # round[k].player2Id
           /\ round[k].player1Id \in ids
           /\ round[k].player2Id \in ids
      /\ \A id \in ids : Len(Involving(round, id)) <= 1

\* C13: when the completion of a complete knockout round N with matches is
\* applied, round N + 1 consists of exactly floor(w / 2) matches between
\* distinct winners of round N, no winner in two of them, if round N has
\* w >= 2 winners; with fewer than 2 winners round N + 1 has no match and the
\* tournament is completed.
C13_KnockoutProgression ==
  [][\A i \in 1..Len(calls) : \A summary \in SummaryTexts :
       LET N == calls[i].currentRound
           w == Cardinality(WinnerIds(matches, N))
       IN  (/\ FormatOf(tournamentSettings) = "knockout"
            /\ RoundMatches(matches, N) # << >>
            /\ IsRoundComplete(matches, N)
            /\ SummaryReturnOf(i, summary)) =>
             IF w >= 2
             THEN IsPairingOf(matches', N + 1, WinnerIds(matches, N), w \div 2)
             ELSE /\ RoundMatches(matches', N + 1) = << >>
                  /\ IsTournamentCompleted']_vars

\* C14: in round-robin format no match of a round beyond the first exists,
\* and the completion of round 1 creates no match and leaves the tournament
\* in the completed state.
C14_RoundRobinEndsAfterRoundOne ==
  [][/\ FormatOf(tournamentSettings') = "round-robin" =>
          \A k \in 1..Len(matches') : matches'[k].round <= 1
     /\ \A i \in 1..Len(calls) : \A summary \in SummaryTexts :
          (/\ FormatOf(tournamentSettings) = "round-robin"
           /\ currentRound = 1
           /\ SummaryReturnOf(i, summary)) =>
            /\ matches' = matches
            /\ IsTournamentCompleted']_vars

\* the matches of round 1 played in group g of category c
GroupMatches(ms, c, g) ==
  SelectSeq(RoundMatches(ms, 1), LAMBDA m : m.category = c /\ m.group = g)

GroupMembers(ms, c, g) ==
  {m.player1Id : m \in Range(GroupMatches(ms, c, g))}
    \cup {m.player2Id : m \in Range(GroupMatches(ms, c, g))}

\* 3 points per win and 1 per draw over the matches of the group
GroupPoints(ms, c, g, id) ==
  3 * Len(SelectSeq(GroupMatches(ms, c, g), LAMBDA m : m.winnerId = id))
    + Len(SelectSeq(Involving(GroupMatches(ms, c, g), id),
                    LAMBDA m : m.isComplete /\ m.winnerId = NULL))

\* a is ranked above b in the group: more points, or as many and a higher
\* rating
RankedAbove(ms, ps, c, g, a, b) ==
  \/ GroupPoints(ms, c, g, a) > GroupPoints(ms, c, g, b)
  \/ /\ GroupPoints(ms, c, g, a) = GroupPoints(ms, c, g, b)
     /\ FindPlayer(ps, a).rating > FindPlayer(ps, b).rating

\* the members of the group with fewer than two members ranked above them
TopTwo(ms, ps, c, g) ==
  {q \in GroupMembers(ms, c, g) :
     Cardinality({a \in GroupMembers(ms, c, g) :
                    RankedAbove(ms, ps, c, g, a, q)}) < 2}

Qualified(ms, ps) ==
  UNION {TopTwo(ms, ps, m.category, m.group) : m \in Range(RoundMatches(ms, 1))}

\* C15: when the completion of the complete group stage (round 1) of a hybrid
\* tournament is applied, the players of the round-2 matches are among the
\* top 2 of their groups by points (3 per win, 1 per draw) and then rating,
\* and if at least 2 players qualify the tournament is in round 2, which has
\* a match.
C15_HybridTopTwoForwarded ==
  [][\A i \in 1..Len(calls) : \A summary \in SummaryTexts :
       (/\ FormatOf(tournamentSettings) = "hybrid"
        /\ currentRound = 1
        /\ RoundMatches(matches, 1) # << >>
        /\ IsRoundComplete(matches, 1)
        /\ SummaryReturnOf(i, summary)) =>
         /\ \A m \in Range(RoundMatches(matches', 2)) :
              {m.player1Id, m.player2Id} \subseteq Qualified(matches, players)
         /\ Cardinality(Qualified(matches, players)) >= 2 =>
              /\ currentRound' = 2
              /\ RoundMatches(matches', 2) # << >>]_vars

\* the ratings of the two players of completed match m went from those of ps
\* to those of qs as the rating rule prescribes: each by K times (actual
\* score - expected score), the expected scores taken from the two ratings of
\* ps; the two changes cancel, a winner gains and a loser loses
RatedByRule(ps, qs, m) ==
  LET r1 == RatingOf(ps, m.player1Id)
      r2 == RatingOf(ps, m.player2Id)
      s1 == ActualOfSide(m.player1Id, m.player2Id, m.winnerId, 1)
      s2 == ActualOfSide(m.player1Id, m.player2Id, m.winnerId, 2)
      n1 == RatingOf(qs, m.player1Id)
      n2 == RatingOf(qs, m.player2Id)
  IN  /\ n1 = r1 + K * (s1 - Expected(r1, r2))
      /\ n2 = r2 + K * (s2 - Expected(r2, r1))
      /\ n1 + n2 = r1 + r2
      /\ m.winnerId = m.player1Id => (n1 > r1 /\ n2 < r2)
      /\ m.winnerId = m.player2Id => (n2 > r2 /\ n1 < r1)

\* C16: whenever the result of a match between two registered players is
\* applied to the ratings (custom-id root: the score entry that completes the
\* match; uuid root: the completion of its round, each player having one
\* match in the round), both ratings change by 32 * (actual - expected) with
\* the expected scores computed from the two ratings before the match, so the
\* changes are opposite, the winner's rating rises and the loser's falls.
C16_RatingUpdateByRule ==
  [][/\ root = "custom" =>
          \A i \in 1..Len(matches) :
            (/\ Len(matches') = Len(matches)
             /\ matches'[i].id = matches[i].id
             /\ ~matches[i].isComplete
             /\ matches'[i].isComplete
             /\ matches[i].player1Id # matches[i].player2Id
             /\ HasPlayer(players, matches[i].player1Id)
             /\ HasPlayer(players, matches[i].player2Id)) =>
              RatedByRule(players, players', matches'[i])
     /\ (root = "uuid" /\ CompleteRoundInvoke) =>
          \A m \in Range(RoundMatches(matches, currentRound)) :
            (/\ m.player1Id # m.player2Id
             /\ HasPlayer(players, m.player1Id)
             /\ HasPlayer(players, m.player2Id)
             /\ Len(Involving(RoundMatches(matches, currentRound),
                              m.player1Id)) = 1
             /\ Len(Involving(RoundMatches(matches, currentRound),
                              m.player2Id)) = 1) =>
              RatedByRule(players, players', m)]_vars

\* C17: while no API key is configured no request is pending at the external
\* service (neither a summary request, i.e. a completion whose summary
\* routine got as far as its request, nor a fixture generation), and a press
\* of Complete Round or Generate Fixture aborts: it starts no loading and
\* changes neither players, matches, round, summaries nor fixtures.
C17_NoServiceCallWithoutKey ==
  [][~apiKey =>
       /\ \A i \in 1..Len(calls') : calls'[i].thrown
       /\ fixtureCalls' = << >>
       /\ (CompleteRound \/ GenerateFixture) =>
            /\ ~isLoadingSummary'
            /\ \A k \in DOMAIN isGeneratingFixture' : ~isGeneratingFixture'[k]
            /\ UNCHANGED <<players, matches, currentRound, roundSummaries,
                           generatedFixtures, calls, fixtureCalls>>]_vars

\* the answer of a failed request, or a text that is no array of pairings
FailedResponse == [ok |-> FALSE, rows |-> << >>]

\* C18: when a pending fixture generation ends with a failed request or an
\* answer that is no array, an error is alerted, the fixtures stored are the
\* ones stored before or an empty one for the category, the matches are
\* unchanged and the loading flag of the category is cleared.
C18_FailedGenerationSurfaced ==
  [][\A i \in 1..Len(fixtureCalls) :
       (/\ fixtureCalls' = RemoveAt(fixtureCalls, i)
        /\ AcceptFixture(fixtureCalls[i], FailedResponse)) =>
         /\ fixtureAlert' # ""
         /\ \/ generatedFixtures' = generatedFixtures
            \/ generatedFixtures' =
                 WithFixture(generatedFixtures, fixtureCalls[i].category, << >>)
         /\ matches' = matches
         /\ ~isGeneratingFixture'[fixtureCalls[i].category]]_vars

\* the start of a knockout with the ticked ids selected
StartWith(selected) ==
  IF root = "custom"
  THEN \E shuffled \in Shuffles(SelectSeq(players,
                                   LAMBDA p : p.id \in selected)) :
         StartKnockoutTournament(selected, shuffled)
  ELSE StartTournament(selected)

\* C19: a start of a knockout with fewer than 2 of the selected ids being ids
\* of registered players changes neither matches, currentRound,
\* tournamentSettings, roundSummaries nor the fixture caches.
C19_StartRejectedBelowTwoPlayers ==
  [][\A selected \in SUBSET (1..MaxIds) :
       (/\ Cardinality(selected \cap PlayerIds(players)) < 2
        /\ StartWith(selected)) =>
         UNCHANGED <<matches, currentRound, tournamentSettings, roundSummaries,
                     generatedFixtures, publishedFixtures>>]_vars

\* the rows whose two names are names of registered players
KnownRows(rows) ==
  SelectSeq(rows, LAMBDA row : /\ row.player1 \in Range(Names(players))
                               /\ row.player2 \in Range(Names(players)))

\* the matches after the step are the matches before it followed by one
\* match per row of known names, in the order of the rows: incomplete, with
\* null scores, between registered players who carry the names of the row
RowsBecomeMatches(rows) ==
  LET known == KnownRows(rows)
  IN  /\ Len(matches') = Len(matches) + Len(known)
      /\ SubSeq(matches', 1, Len(matches)) = matches
      /\ \A k \in 1..Len(known) :
           LET m == matches'[Len(matches) + k]
           IN  /\ ~m.isComplete
               /\ m.score1 = NULL
               /\ m.score2 = NULL
               /\ m.winnerId = NULL
               /\ HasPlayer(players, m.player1Id)
               /\ HasPlayer(players, m.player2Id)
               /\ FindPlayer(players, m.player1Id).name = known[k].player1
               /\ FindPlayer(players, m.player2Id).name = known[k].player2

----------------------------------------------------------------------------
(* Fixture files: the download of a fixture and the upload of the file *)

\* `${e.round}`: the decimal text of a round number
NumberText == <<"1", "2", "3">>

TextOfRound(round) ==
  IF round \in 1..Len(NumberText) THEN NumberText[round] ELSE "undefined"

\* e.category || '' and e.group || ''
OrEmpty(row, field) == IF field \in DOMAIN row THEN row[field] ELSE ""

\* custom-id root, handleDownloadFixture: the header line and one line of
\* five cells per row
DownloadCustom(fixtureData) ==
  [header |-> <<"player1", "player2", "round", "category", "group">>,
   lines |-> [k \in 1..Len(fixtureData) |->
                <<fixtureData[k].player1, fixtureData[k].player2,
                  TextOfRound(fixtureData[k].round),
                  OrEmpty(fixtureData[k], "category"),
                  OrEmpty(fixtureData[k], "group")>>]]

\* uuid root, handleDownloadFixture: the header line and one line of four
\* quoted cells per row (the round is not written)
DownloadUuid(fixtureData) ==
  [header |-> <<"Player 1", "Player 2", "Category", "Group">>,
   lines |-> [k \in 1..Len(fixtureData) |->
                <<fixtureData[k].player1, fixtureData[k].player2,
                  OrEmpty(fixtureData[k], "category"),
                  OrEmpty(fixtureData[k], "group")>>]]

\* transformHeader: header.trim().toLowerCase()
TransformHeader(header) ==
  CASE header = "Player 1" -> "player 1"
    [] header = "Player 2" -> "player 2"
    [] header = "Category" -> "category"
    [] header = "Group" -> "group"
    [] OTHER -> header

\* Papa.parse(text, { header: true, ... }).data: one object per line, keyed by
\* the transformed header cells, every value a text
PapaParse(csv) ==
  [k \in 1..Len(csv.lines) |->
     [key \in {TransformHeader(csv.header[i]) : i \in 1..Len(csv.header)} |->
        csv.lines[k][CHOOSE i \in 1..Len(csv.header) :
                       TransformHeader(csv.header[i]) = key]]]

\* a value of the program as <<type, text>>
JsNumber(n) == <<"number", TextOfRound(n)>>

JsString(text) == <<"string", text>>

JsNull == <<"object", "null">>

\* custom-id root, handleUploadCustomFixture: the parsed objects are stored as
\* they are (player1, player2, round, category, group of a stored row)
UploadedCustom(data) ==
  [k \in 1..Len(data) |->
     <<JsString(data[k].player1), JsString(data[k].player2),
       JsString(data[k].round), JsString(data[k].category),
       JsString(data[k].group)>>]

\* parseInt(text, 10) of the text of a round
ParseRound(text) ==
  IF \E n \in 1..Len(NumberText) : NumberText[n] = text
  THEN CHOOSE n \in 1..Len(NumberText) : NumberText[n] = text
  ELSE NaN

\* uuid root, handleUploadCustomFixture: results.data.forEach, which skips an
\* object without data.player1 or data.player2
UploadedUuid(data) ==
  LET named == SelectSeq(data,
                 LAMBDA d : /\ "player1" \in DOMAIN d
                            /\ "player2" \in DOMAIN d
                            /\ d["player1"] # ""
                            /\ d["player2"] # "")
  IN  [k \in 1..Len(named) |->
         <<JsString(named[k]["player1"]), JsString(named[k]["player2"]),
           IF "round" \in DOMAIN named[k] /\ named[k]["round"] # ""
           THEN JsNumber(ParseRound(named[k]["round"])) ELSE JsNumber(1),
           IF OrEmpty(named[k], "category") # ""
           THEN JsString(named[k]["category"]) ELSE JsString("default"),
           IF OrEmpty(named[k], "group") # ""
           THEN JsString(named[k]["group"]) ELSE JsNull>>]

\* the rows the upload stores for the file the download wrote
Reimported(fixtureData) ==
  IF root = "custom" THEN UploadedCustom(PapaParse(DownloadCustom(fixtureData)))
  ELSE UploadedUuid(PapaParse(DownloadUuid(fixtureData)))

\* player1, player2, round, category and group of the rows of a fixture, a
\* category or group that is not set counting as the empty text
RowsOf(fixtureData) ==
  [k \in 1..Len(fixtureData) |->
     <<JsString(fixtureData[k].player1), JsString(fixtureData[k].player2),
       JsNumber(fixtureData[k].round),
       JsString(OrEmpty(fixtureData[k], "category")),
       JsString(OrEmpty(fixtureData[k], "group"))>>]

\* C21: the file downloaded for a generated fixture that has rows, uploaded
\* as a custom fixture in the same root, is accepted (rows are stored) and
\* the rows stored are the rows of the fixture, in the same order.
C21_FixtureRoundTrip ==
  \A key \in DOMAIN generatedFixtures :
    generatedFixtures[key] # << >> =>
      /\ Reimported(generatedFixtures[key]) # << >>
      /\ Reimported(generatedFixtures[key]) = RowsOf(generatedFixtures[key])

\* a completion of the current round is awaiting its answer
CompletionPending ==
  \E i \in 1..Len(calls) : calls[i].currentRound = currentRound

\* C22: the results of a round are applied once. Complete Round pressed for
\* a round whose completion is still awaiting its answer changes no player's
\* counters or rating, and the answer of a completion invoked for round N
\* leaves currentRound at N + 1 at most and appends the matches of round
\* N + 1 only if that round has none yet.
C22_RoundAppliedOnce ==
  [][/\ (CompletionPending /\ CompleteRound) => players' = players
     /\ \A i \in 1..Len(calls) : \A summary \in SummaryTexts :
          SummaryReturnOf(i, summary) =>
            /\ currentRound' <= calls[i].currentRound + 1
            /\ RoundMatches(matches, calls[i].currentRound + 1) # << >>
                 => matches' = matches]_vars

----------------------------------------------------------------------------
(* A knockout run in which the admin also deletes players *)

\* screen: the delete button of a listed player, pressed during a tournament
DeleteDuringRun ==
  /\ currentRound > 0
  /\ RemovePlayer

NextDeletion ==
  \/ AddPlayer
  \/ StartKnockout
  \/ HandleScoreChange
  \/ CompleteRound
  \/ SummaryReturn
  \/ DeleteDuringRun

SpecDeletion == Init /\ [][NextDeletion]_vars

\* C23: in every reachable state the two sides of every match, and its winner
\* when it has one, are ids of players of the registry, also when a player
\* is deleted while a round completion is awaiting its answer.
C23_MatchesReferToPlayers ==
  \A i \in 1..Len(matches) :
    /\ HasPlayer(players, matches[i].player1Id)
    /\ HasPlayer(players, matches[i].player2Id)
    /\ matches[i].winnerId # NULL => HasPlayer(players, matches[i].winnerId)

----------------------------------------------------------------------------
(* A run in which the admin also resets the tournament *)

\* handleResetTournament / resetTournament, confirmed: the store is set to
\* its initial content; what is awaiting an answer keeps waiting.
\* screen: the Reset Tournament button, disabled unless currentRound > 0 or a
\* fixture is being generated
ResetTournament ==
  /\ currentRound > 0 \/ \E category \in DOMAIN isGeneratingFixture :
                           IsGenerating(category)
  /\ players' = initialState.players
  /\ matches' = initialState.matches
  /\ currentRound' = initialState.currentRound
  /\ tournamentSettings' = initialState.tournamentSettings
  /\ roundSummaries' = initialState.roundSummaries
  /\ activeFixtureCategories' = initialState.activeFixtureCategories
  /\ generatedFixtures' = initialState.generatedFixtures
  /\ publishedFixtures' = initialState.publishedFixtures
  /\ isGeneratingFixture' = initialState.isGeneratingFixture
  /\ isLoadingSummary' = initialState.isLoadingSummary
  /\ isBulkUploadingPlayers' = initialState.isBulkUploadingPlayers
  /\ UNCHANGED <<root, apiKey, fixtureAlert, currentId, calls, fixtureCalls,
                 warnings>>

\* registration in the runs with a reset
RegisterEntrant ==
  /\ currentId < MaxEntrantId
  /\ AddPlayer

NextReset ==
  \/ RegisterEntrant
  \/ GenerateFixture
  \/ FixtureReturn
  \/ StartKnockout
  \/ HandleScoreChange
  \/ CompleteRound
  \/ SummaryReturn
  \/ ResetTournament

SpecReset == Init /\ [][NextReset]_vars

\* no matches, round 0, no summaries, empty fixture caches, no loading flag
InitialTournament ==
  /\ matches = << >>
  /\ currentRound = 0
  /\ roundSummaries = EmptyMap
  /\ generatedFixtures = EmptyMap
  /\ publishedFixtures = EmptyMap
  /\ ~isLoadingSummary
  /\ \A category \in DOMAIN isGeneratingFixture : ~IsGenerating(category)

\* the generator answers pending fixture generation i
FixtureReturnOf(i) ==
  \E response \in GeneratorResponses(fixtureCalls[i].names) :
    /\ fixtureCalls' = RemoveAt(fixtureCalls, i)
    /\ AcceptFixture(fixtureCalls[i], response)

\* C24: a confirmed reset leaves the tournament in its initial state, and the
\* answer to a round completion or fixture generation that was pending when
\* the reset was issued (a completion of a round above 0 while the round is
\* 0, a generation whose loading flag is no longer set) does not take the
\* tournament out of it.
C24_ResetIsFinal ==
  [][/\ ResetTournament => InitialTournament'
     /\ \A i \in 1..Len(calls) : \A summary \in SummaryTexts :
          (/\ InitialTournament
           /\ calls[i].currentRound > 0
           /\ SummaryReturnOf(i, summary)) => InitialTournament'
     /\ \A i \in 1..Len(fixtureCalls) :
          (/\ InitialTournament
           /\ ~IsGenerating(fixtureCalls[i].category)
           /\ FixtureReturnOf(i)) => InitialTournament']_vars

\* C25: whenever the tournament is started, the current round has matches
\* that are all complete, and the round has neither a summary nor a
\* completion awaiting its answer, the Complete Round button is rendered and
\* enabled.
C25_CompleteRoundOffered ==
  (/\ currentRound > 0
   /\ RoundMatches(matches, currentRound) # << >>
   /\ IsRoundComplete(matches, currentRound)
   /\ currentRound \notin DOMAIN roundSummaries
   /\ ~CompletionPending) => CompleteRoundAvailable

\* the registered players a knockout was started with
Entrants ==
  IF tournamentSettings = << >> THEN {}
  ELSE tournamentSettings[1].selectedPlayerIds \cap PlayerIds(players)

\* the player has lost no match
Unbeaten(id) ==
  \A i \in 1..Len(matches) :
    (matches[i].isComplete /\ id \in {matches[i].player1Id, matches[i].player2Id})
      => matches[i].winnerId \in {id, NULL}

\* the player is a side of a match of the current round
PlaysCurrentRound(id) ==
  \E i \in 1..Len(matches) :
    /\ matches[i].round = currentRound
    /\ id \in {matches[i].player1Id, matches[i].player2Id}

\* C26: in a knockout without drawn matches a player who has not lost is not
\* eliminated: when the tournament is declared completed at most one entrant
\* is unbeaten, and in every round after the first at most one unbeaten
\* entrant (the bye) is left without a match.
C26_UnbeatenNotEliminated ==
  (/\ FormatOf(tournamentSettings) = "knockout"
   /\ currentRound > 0
   /\ \A i \in 1..Len(matches) :
        matches[i].isComplete => matches[i].winnerId # NULL)
    => /\ IsTournamentCompleted
            => Cardinality({id \in Entrants : Unbeaten(id)}) <= 1
       /\ (currentRound > 1 /\ RoundMatches(matches, currentRound) # << >>)
            => Cardinality({id \in Entrants :
                              Unbeaten(id) /\ ~PlaysCurrentRound(id)}) <= 1

\* C27: a loading flag is true only while its operation is in flight: after
\* a bulk upload has run to its end, whatever the file, isBulkUploadingPlayers
\* is false; isLoadingSummary is true only while a round completion awaits
\* its answer, isGeneratingFixture[c] only while a generation for c does.
C27_FlagsOnlyInFlight ==
  /\ ~isBulkUploadingPlayers
  /\ isLoadingSummary => calls # << >>
  /\ \A category \in DOMAIN isGeneratingFixture :
       IsGenerating(category) =>
         \E i \in 1..Len(fixtureCalls) : fixtureCalls[i].category = category

\* C28: a bulk upload removes no registered player: every player registered
\* before the upload is registered after it, under the same id and with the
\* same wins, losses and draws, whatever the registry and the file.
C28_BulkUploadKeepsPlayers ==
  [][\A file \in Files \cup {EmptyFile} :
       BulkUploadOf(file) =>
         \A i \in 1..Len(players) :
           \E j \in 1..Len(players') :
             /\ players'[j].id = players[i].id
             /\ players'[j].wins = players[i].wins
             /\ players'[j].losses = players[i].losses
             /\ players'[j].draws = players[i].draws]_vars

\* the total of one counter over the players
RECURSIVE SumOf(_, _)
SumOf(ps, field) ==
  IF ps = << >> THEN 0 ELSE Head(ps)[field] + SumOf(Tail(ps), field)

\* C29: after any sequence of registrations, fixture additions, score
\* entries and round completions the wins of all players add up to the
\* losses of all players, the draws add up to an even number, and no
\* counter is negative.
C29_ResultsConserved ==
  /\ SumOf(players, "wins") = SumOf(players, "losses")
  /\ SumOf(players, "draws") % 2 = 0
  /\ \A i \in 1..Len(players) :
       players[i].wins >= 0 /\ players[i].losses >= 0 /\ players[i].draws >= 0

\* a decided match and a drawn match have been counted
C29_Witness ==
  /\ \E i \in 1..Len(players) : players[i].wins > 0
  /\ \E i \in 1..Len(players) : players[i].draws > 0

\* C30: a knockout shrinks: the answer to the completion of round N leaves
\* round N + 1 with strictly fewer matches than round N has, and creates no
\* match once the tournament is shown as completed.
C30_KnockoutShrinks ==
  [][(/\ FormatOf(tournamentSettings) = "knockout"
      /\ currentRound >= 1)
       => \A i \in 1..Len(calls) : \A summary \in SummaryTexts :
            SummaryReturnOf(i, summary) =>
              /\ RoundMatches(matches, calls[i].currentRound) # << >>
                   => Len(RoundMatches(matches', calls[i].currentRound + 1))
                        < Len(RoundMatches(matches', calls[i].currentRound))
              /\ IsTournamentCompleted => matches' = matches]_vars

====
